---- MODULE Spec2Model ----
(***************************************************************************)
(* Model of archive_mail.py: the incremental IMAP fetch loop of main(),    *)
(* its storage back ends (directory tree or mails.zip) and the server's    *)
(* answers.  Names are strings of the program modelled as sequences of     *)
(* one-character tokens, so that the substring, split and regular          *)
(* expression steps of the inventory scan are computed as the code does.   *)
(***************************************************************************)
EXTENDS Integers, Sequences, FiniteSets, Bags, TLC

(* ---------------- bounds of the model ---------------- *)
MaxRuns == 2
MaxN == 2
MaxBatch == 2
MaxFaults == 1
MaxPlan == 5
MaxSize == 3
MaxHeaderLen == 2
LongRepeat == 20

(* ---------------- the server: mailboxes and their messages ---------------- *)
MbA == <<"A">>
MbBA == <<"B", "A">>
ServerListing == <<MbA, MbBA>>
MsgCount(mailbox) == IF mailbox = MbBA THEN MaxN ELSE MaxN - 1

(* ---------------- string helpers ---------------- *)
DigitChars == <<"0", "1", "2", "3", "4", "5", "6", "7", "8", "9">>
IsDigit(c) == \E d \in 1..10 : DigitChars[d] = c
DigitVal(c) == (CHOOSE d \in 1..10 : DigitChars[d] = c) - 1

RECURSIVE Str(_)
Str(n) == IF n < 10 THEN <<DigitChars[n + 1]>>
          ELSE Str(n \div 10) \o <<DigitChars[(n % 10) + 1]>>

RECURSIVE ParseInt(_)
ParseInt(s) == IF Len(s) = 0 THEN 0
               ELSE 10 * ParseInt(SubSeq(s, 1, Len(s) - 1)) + DigitVal(s[Len(s)])

StartsAt(x, sep, i) == /\ i + Len(sep) - 1 <= Len(x)
                       /\ SubSeq(x, i, i + Len(sep) - 1) = sep
Contains(x, sep) == \E i \in 1..(Len(x) + 1) : StartsAt(x, sep, i)
FirstAt(x, sep) == CHOOSE i \in 1..(Len(x) + 1) :
                      /\ StartsAt(x, sep, i)
                      /\ \A j \in 1..(i - 1) : ~StartsAt(x, sep, j)

RECURSIVE SplitLast(_, _)
SplitLast(x, sep) == IF ~Contains(x, sep) THEN x
                     ELSE SplitLast(SubSeq(x, FirstAt(x, sep) + Len(sep), Len(x)), sep)
SplitFirst(x, sep) == IF ~Contains(x, sep) THEN x
                      ELSE SubSeq(x, 1, FirstAt(x, sep) - 1)

DigitsUnderscore(x) == \E k \in 1..Len(x) :
                          /\ k >= 2
                          /\ x[k] = "_"
                          /\ \A j \in 1..(k - 1) : IsDigit(x[j])

RECURSIVE FilterLen(_)
FilterLen(names) == IF names = <<>> THEN <<>>
                    ELSE IF Len(Head(names)) > 0
                         THEN <<Head(names)>> \o FilterLen(Tail(names))
                         ELSE FilterLen(Tail(names))

RECURSIVE NotExcluded(_, _)
NotExcluded(names, excluded) ==
    IF names = <<>> THEN <<>>
    ELSE IF \E i \in 1..Len(excluded) : excluded[i] = Head(names)
         THEN NotExcluded(Tail(names), excluded)
         ELSE <<Head(names)>> \o NotExcluded(Tail(names), excluded)

(* ---------------- sanitize_string, lines 32-37 ---------------- *)
LowerChars == <<"a", "b", "c", "d", "e", "f", "g", "h", "i", "j", "k", "l", "m",
                "n", "o", "p", "q", "r", "s", "t", "u", "v", "w", "x", "y", "z">>
UpperChars == <<"A", "B", "C", "D", "E", "F", "G", "H", "I", "J", "K", "L", "M",
                "N", "O", "P", "Q", "R", "S", "T", "U", "V", "W", "X", "Y", "Z">>
(* a character outside ASCII for which str.isalnum() is true *)
EAcute == "e_acute"
Lower(c) == IF \E k \in 1..26 : UpperChars[k] = c
            THEN LowerChars[CHOOSE k \in 1..26 : UpperChars[k] = c]
            ELSE c
IsLetter(c) == \E k \in 1..26 : LowerChars[k] = Lower(c)
IsSpace(c) == c \in {" ", "\t", "\n"}
IsAlnum(c) == IsLetter(c) \/ IsDigit(c) \/ c = EAcute
IsKept(c) == c \in {"@", "-", "_", ".", " "} \/ IsAlnum(c)

LowerAt(x, i, word) == /\ i + Len(word) - 1 <= Len(x)
                       /\ \A k \in 1..Len(word) : Lower(x[i + k - 1]) = word[k]
RECURSIVE DigitRun(_, _)
DigitRun(x, i) == IF i <= Len(x) /\ IsDigit(x[i]) THEN 1 + DigitRun(x, i + 1) ELSE 0

(* length of the match of utf-[0-9][a-z]|iso-[0-9]+-[0-9][a-z] at i, ignoring case;
   0 when there is none *)
CharsetAt(x, i) ==
    IF /\ LowerAt(x, i, <<"u", "t", "f", "-">>)
       /\ i + 5 <= Len(x)
       /\ IsDigit(x[i + 4])
       /\ IsLetter(x[i + 5])
    THEN 6
    ELSE IF LowerAt(x, i, <<"i", "s", "o", "-">>)
    THEN LET d == DigitRun(x, i + 4)
             j == i + 4 + d
         IN IF /\ d >= 1
               /\ j + 2 <= Len(x)
               /\ x[j] = "-"
               /\ IsDigit(x[j + 1])
               /\ IsLetter(x[j + 2])
            THEN d + 7
            ELSE 0
    ELSE 0

RECURSIVE RemoveCharsets(_)
RemoveCharsets(x) ==
    IF x = <<>> THEN <<>>
    ELSE IF CharsetAt(x, 1) > 0
         THEN RemoveCharsets(SubSeq(x, CharsetAt(x, 1) + 1, Len(x)))
         ELSE <<Head(x)>> \o RemoveCharsets(Tail(x))

RECURSIVE Strip(_)
Strip(x) == IF x = <<>> THEN <<>>
            ELSE IF IsSpace(Head(x)) THEN Strip(Tail(x))
            ELSE IF IsSpace(x[Len(x)]) THEN Strip(SubSeq(x, 1, Len(x) - 1))
            ELSE x

NameCut == 35
Cut(x) == SubSeq(x, 1, IF Len(x) < NameCut THEN Len(x) ELSE NameCut)

None == <<"None">>
sanitize_stringUncut(string) ==
    IF string = None THEN None
    ELSE SelectSeq(Strip(RemoveCharsets(string)), IsKept)
sanitize_string(string) ==
    IF string = None THEN None
    ELSE Cut(SelectSeq(Strip(RemoveCharsets(string)), IsKept))

(* ---------------- names of persisted records ---------------- *)
FromAddr == <<"f">>
Subject == <<"s">>
NoSubject == <<"n", "o", "_", "s", "u", "b", "j", "e", "c", "t">>
NoSender == <<"n", "o", "_", "s", "e", "n", "d", "e", "r">>
OrElse(value, fallback) == IF value = None \/ value = <<>> THEN fallback ELSE value
FileName(msg_id, from_addr, subject) ==
    Str(ParseInt(msg_id)) \o <<"_">> \o from_addr \o <<"_", "_">> \o subject
       \o <<".", "e", "m", "l">>
EntryPath(mailbox, file_name) == mailbox \o <<"/">> \o file_name

(* ---------------- program state ---------------- *)
VARIABLES
    args,        \* the parsed options of the current run
    storage,     \* destination: mails.zip (a bag of entry paths) and the directory tree
    pc,          \* position of main(): idle, connect, list, select, fetch, write, close,
                 \*   done, aborted, exit130
    status,      \* exit status of the last finished run
    mailboxes,   \* mailboxes still to do, the head is the current one
    ids,         \* inventory of the current mailbox
    fetch,       \* sequence numbers to fetch for the current mailbox
    batches,     \* batches still to do, the head is the current one
    msg_ids,     \* ids of the current batch still to be written
    messages,    \* chunks of the fetch response not yet consumed
    run,         \* number of runs started
    faults,      \* failures and interrupts injected so far
    lastEvent,   \* what the last step observed
    startStorage,\* storage when the current run started
    batchWritten,\* sequence numbers written so far by the current batch
    pass,        \* record of the current mailbox pass
    hist,        \* record of the current run
    prev,        \* record of the previous run
    selected,    \* the mailbox selected in the session, <<>> when none is
    unit         \* a helper of main() applied on its own: its input and its result

vars == <<args, storage, pc, status, mailboxes, ids, fetch, batches, msg_ids, messages,
          run, faults, lastEvent, startStorage, batchWritten, pass, hist, prev,
          selected, unit>>

progVars == <<mailboxes, ids, fetch, batches, msg_ids, messages>>
mainVars == <<args, storage, pc, status, mailboxes, ids, fetch, batches, msg_ids, messages,
              run, faults, lastEvent, startStorage, batchWritten, pass, hist, prev, selected>>

(* ---------------- options ---------------- *)
IncludeArgs == {<<>>, <<MbA, <<>>>>, <<MbA, MbA>>, <<MbBA, MbA>>}
ExcludeArgs == {<<>>, <<MbBA>>}

EmptyStorage == [zipExists |-> FALSE, zip |-> EmptyBag, dirs |-> {}, files |-> {}]
NoPass == [mailbox |-> <<>>, written |-> {}, fetchNo |-> {}, otherFail |-> FALSE,
           emptyInv |-> FALSE, fetches |-> 0, asked |-> {}, again |-> FALSE]
NoUnit == [fn |-> "none", input |-> <<>>, size |-> 0, out |-> <<>>, name |-> <<>>,
           done |-> FALSE]
NoHist == [wrote |-> 0, fetched |-> {}, failed |-> 0]

InitMain ==
    /\ \E z \in BOOLEAN, b \in 1..MaxBatch :
          args = [zip |-> z, all |-> FALSE, dry_run |-> FALSE, list_mailboxes |-> FALSE,
                  include |-> <<>>, exclude |-> <<>>, batch_size |-> b]
    /\ storage = EmptyStorage
    /\ pc = "idle"
    /\ status = 0
    /\ mailboxes = <<>>
    /\ ids = {}
    /\ fetch = <<>>
    /\ batches = <<>>
    /\ msg_ids = <<>>
    /\ messages = <<>>
    /\ run = 0
    /\ faults = 0
    /\ lastEvent = "none"
    /\ startStorage = EmptyStorage
    /\ batchWritten = {}
    /\ pass = NoPass
    /\ hist = NoHist
    /\ prev = [valid |-> FALSE, same |-> FALSE, all |-> FALSE, done |-> FALSE, clean |-> FALSE,
               failed |-> FALSE]
    /\ selected = <<>>

Init ==
    /\ InitMain
    /\ unit = NoUnit

Finished == pc \in {"idle", "done", "aborted", "exit130"}

(* main(), lines 41-45: the options are read and a previous archive is removed *)
RemoveArchiveNever(st, a) == st
RemoveArchive(st, a) ==
    IF st.zipExists /\ a.zip /\ a.all
    THEN [st EXCEPT !.zipExists = FALSE, !.zip = EmptyBag]
    ELSE st

StartRun ==
    /\ Finished
    /\ run < MaxRuns
    /\ \E al \in BOOLEAN, dr \in BOOLEAN, li \in BOOLEAN,
          inc \in IncludeArgs, exc \in ExcludeArgs :
          /\ inc = <<>> \/ exc = <<>> \/ inc = <<MbBA, MbA>>
          /\ (li \/ dr) => (~(li /\ dr) /\ inc = <<>> /\ exc = <<>>)
          /\ args' = [args EXCEPT !.all = al, !.dry_run = dr, !.list_mailboxes = li,
                                   !.include = inc, !.exclude = exc]
    /\ storage' = RemoveArchive(storage, args')
    /\ startStorage' = storage
    /\ prev' = [valid |-> run > 0, same |-> (args' = args), all |-> args.all,
                done |-> (pc = "done"), clean |-> (pc = "done" /\ hist.failed = 0),
                failed |-> (hist.failed > 0)]
    /\ run' = run + 1
    /\ pc' = "connect"
    /\ status' = 0
    /\ lastEvent' = "start"
    /\ batchWritten' = {}
    /\ pass' = NoPass
    /\ hist' = NoHist
    /\ selected' = <<>>
    /\ UNCHANGED <<faults, unit>>
    /\ mailboxes' = <<>>
    /\ ids' = {}
    /\ fetch' = <<>>
    /\ batches' = <<>>
    /\ msg_ids' = <<>>
    /\ messages' = <<>>

AbortIgnored(event) ==
    /\ pc' = "done"
    /\ status' = 0
    /\ lastEvent' = event
Abort(event) ==
    /\ pc' = "aborted"
    /\ status' = 1
    /\ lastEvent' = event

(* line 49: Connection(...) connects and logs in, or raises *)
Connect ==
    /\ pc = "connect"
    /\ \/ /\ pc' = "list"
          /\ lastEvent' = "connected"
          /\ UNCHANGED <<status, faults>>
       \/ /\ faults < MaxFaults
          /\ faults' = faults + 1
          /\ Abort("connect_fail")
    /\ UNCHANGED <<args, storage, progVars, run, startStorage, batchWritten, pass, hist, prev,
                   selected, unit>>

(* lines 50-63: the working mailbox set *)
Included(a) == FilterLen(a.include)
Excluded(a) == FilterLen(a.exclude)
UsesInclude(a) == Len(Included(a)) > 0 /\ ~a.list_mailboxes

Listing ==
    /\ pc = "list"
    /\ \/ /\ UsesInclude(args)
          /\ mailboxes' = NotExcluded(Included(args), Excluded(args))
          /\ pc' = IF mailboxes' = <<>> THEN "done" ELSE "select"
          /\ lastEvent' = "included"
          /\ UNCHANGED <<status, faults>>
       \/ /\ ~UsesInclude(args)
          /\ ~args.list_mailboxes
          /\ mailboxes' = NotExcluded(ServerListing, Excluded(args))
          /\ pc' = IF mailboxes' = <<>> THEN "done" ELSE "select"
          /\ lastEvent' = "list_ok"
          /\ UNCHANGED <<status, faults>>
       \/ /\ args.list_mailboxes
          /\ mailboxes' = <<>>
          /\ pc' = "done"
          /\ lastEvent' = "list_only"
          /\ UNCHANGED <<status, faults>>
       \/ /\ ~UsesInclude(args)
          /\ faults < MaxFaults
          /\ faults' = faults + 1
          /\ mailboxes' = <<>>
          /\ Abort("list_no")
    /\ UNCHANGED <<args, storage, ids, fetch, batches, msg_ids, messages, run,
                   startStorage, batchWritten, pass, hist, prev, selected, unit>>

(* ---------------- inventory scan, lines 74-85 ---------------- *)
NameList(st) == BagToSet(st.zip)
ListDir(st, mailbox) == {f.name : f \in {g \in st.files : g.dir = mailbox}}

CheckList(st, a, mailbox) ==
    IF a.zip
    THEN {SplitLast(x, mailbox \o <<"/">>) : x \in {y \in NameList(st) : Contains(y, mailbox)}}
    ELSE ListDir(st, mailbox)

InventoryOfPaths(st, a, mailbox) ==
    LET names == IF a.zip THEN {y \in NameList(st) : Contains(y, mailbox)}
                 ELSE ListDir(st, mailbox)
    IN {ParseInt(SplitFirst(x, <<"_">>)) : x \in {y \in names : DigitsUnderscore(y)}}
Inventory(st, a, mailbox) ==
    {ParseInt(SplitFirst(x, <<"_">>)) : x \in {y \in CheckList(st, a, mailbox) : DigitsUnderscore(y)}}

(* side effect of the scan: ZipFile(archive_path, "a") creates a missing archive,
   mkdir(parents=True, exist_ok=True) creates a missing directory *)
ScanEffect(st, a, mailbox) ==
    IF a.all THEN st
    ELSE IF a.zip THEN [st EXCEPT !.zipExists = TRUE]
    ELSE [st EXCEPT !.dirs = @ \cup {mailbox}]

(* ---------------- fetch plan and batches, lines 68, 86-93 ---------------- *)
IndexesShort(count) == [i \in 1..(count - 1) |-> i]
Indexes(count) == [i \in 1..count |-> i]
IsMissingInverted(known, i) == i \in known
IsMissing(known, i) == i \notin known
FetchPlan(count, known, all) ==
    IF all THEN Indexes(count)
    ELSE SelectSeq(Indexes(count), LAMBDA i : IsMissing(known, i))

Min(a, b) == IF a < b THEN a ELSE b
RECURSIVE ChunksFullOnly(_, _)
ChunksFullOnly(plan, size) ==
    IF Len(plan) < size THEN <<>>
    ELSE <<SubSeq(plan, 1, size)>> \o ChunksFullOnly(SubSeq(plan, size + 1, Len(plan)), size)
RECURSIVE Chunks(_, _)
Chunks(plan, size) ==
    IF Len(plan) = 0 THEN <<>>
    ELSE <<SubSeq(plan, 1, Min(size, Len(plan)))>>
            \o Chunks(SubSeq(plan, Min(size, Len(plan)) + 1, Len(plan)), size)

Batch(chunk) == [k \in 1..Len(chunk) |-> Str(chunk[k])]
Batches(plan, size) == [k \in 1..Len(Chunks(plan, size)) |-> Batch(Chunks(plan, size)[k])]
BatchNumbers(batch) == {ParseInt(batch[k]) : k \in 1..Len(batch)}

AfterBatchSkipsClose(bs) == IF bs = <<>> THEN "done" ELSE "fetch"
AfterBatch(bs) == IF bs = <<>> THEN "close" ELSE "fetch"

(* lines 66-94: select the mailbox, scan the inventory, plan the batches *)
SelectMailbox ==
    /\ pc = "select"
    /\ LET mailbox == Head(mailboxes) IN
       \/ /\ ids' = IF args.all THEN ids ELSE Inventory(storage, args, mailbox)
          /\ storage' = ScanEffect(storage, args, mailbox)
          /\ fetch' = FetchPlan(MsgCount(mailbox), ids', args.all)
          /\ batches' = Batches(fetch', args.batch_size)
          /\ pc' = AfterBatch(batches')
          /\ lastEvent' = "select_ok"
          /\ pass' = [NoPass EXCEPT !.mailbox = mailbox,
                                    !.emptyInv = (~args.all /\ ids' = {})]
          /\ batchWritten' = {}
          /\ selected' = mailbox
          /\ UNCHANGED <<status, faults>>
       \/ /\ faults < MaxFaults
          /\ faults' = faults + 1
          /\ Abort("select_no")
          /\ UNCHANGED <<storage, ids, fetch, batches, pass, batchWritten, selected>>
    /\ UNCHANGED <<args, mailboxes, msg_ids, messages, run, startStorage, hist, prev, unit>>

(* ---------------- the fetch response, lines 98-101 ---------------- *)
RECURSIVE Payloads(_)
Payloads(n) == IF n <= 0 THEN <<>> ELSE <<"msg", "frame">> \o Payloads(n - 1)
RECURSIVE Unframed(_)
Unframed(n) == IF n <= 0 THEN <<>> ELSE <<"msg", "junk">> \o Unframed(n - 1)
GoodResponse(n) == Payloads(n)
BadResponses(n) == {Payloads(n - 1), Payloads(n + 1), Unframed(n)}

IsFraming(chunk) == chunk = "frame"
Mails(response) == SelectSeq(response, LAMBDA m : ~IsFraming(m))

(* a fetch request for the current batch is counted in the record of the pass *)
Asked(p) == [p EXCEPT !.fetches = @ + 1,
                      !.again = @ \/ (BatchNumbers(Head(batches)) \cap p.asked # {}),
                      !.asked = @ \cup BatchNumbers(Head(batches))]

(* except Exception, lines 127-129: the batch is reported and the loop goes on *)
BatchFailedRaises(event, fetchNo, h) ==
    /\ lastEvent' = event
    /\ batches' = Tail(batches)
    /\ pc' = "aborted"
    /\ status' = 1
    /\ msg_ids' = <<>>
    /\ batchWritten' = IF pc = "fetch" THEN {} ELSE batchWritten
    /\ pass' = [(IF pc = "fetch" THEN Asked(pass) ELSE pass)
                   EXCEPT !.fetchNo = IF fetchNo THEN @ \cup BatchNumbers(Head(batches)) ELSE @,
                          !.otherFail = @ \/ ~fetchNo]
    /\ hist' = [h EXCEPT !.failed = @ + 1]
BatchFailedRetries(event, fetchNo, h) ==
    /\ lastEvent' = event
    /\ batches' = batches
    /\ pc' = "fetch"
    /\ msg_ids' = <<>>
    /\ batchWritten' = IF pc = "fetch" THEN {} ELSE batchWritten
    /\ pass' = [(IF pc = "fetch" THEN Asked(pass) ELSE pass)
                   EXCEPT !.fetchNo = IF fetchNo THEN @ \cup BatchNumbers(Head(batches)) ELSE @,
                          !.otherFail = @ \/ ~fetchNo]
    /\ hist' = [h EXCEPT !.failed = @ + 1]
    /\ UNCHANGED status
BatchFailed(event, fetchNo, h) ==
    /\ lastEvent' = event
    /\ batches' = Tail(batches)
    /\ pc' = AfterBatch(batches')
    /\ msg_ids' = <<>>
    /\ batchWritten' = IF pc = "fetch" THEN {} ELSE batchWritten
    /\ pass' = [(IF pc = "fetch" THEN Asked(pass) ELSE pass)
                   EXCEPT !.fetchNo = IF fetchNo THEN @ \cup BatchNumbers(Head(batches)) ELSE @,
                          !.otherFail = @ \/ ~fetchNo]
    /\ hist' = [h EXCEPT !.failed = @ + 1]
    /\ UNCHANGED status

(* except KeyboardInterrupt, lines 123-125 *)
Exit130 ==
    /\ lastEvent' = "interrupt"
    /\ pc' = "exit130"
    /\ status' = 130

Requested == [hist EXCEPT !.fetched = @ \cup {<<pass.mailbox, n>> : n \in BatchNumbers(Head(batches))}]

(* line 98: one fetch request for the current batch *)
FetchBatch ==
    /\ pc = "fetch"
    /\ \/ /\ messages' = Mails(GoodResponse(Len(Head(batches))))
          /\ msg_ids' = Head(batches)
          /\ pc' = "write"
          /\ lastEvent' = "fetch_ok"
          /\ hist' = Requested
          /\ batchWritten' = {}
          /\ pass' = Asked(pass)
          /\ UNCHANGED <<status, faults, batches>>
       \/ /\ faults < MaxFaults
          /\ faults' = faults + 1
          /\ \E r \in BadResponses(Len(Head(batches))) : messages' = Mails(r)
          /\ msg_ids' = Head(batches)
          /\ pc' = "write"
          /\ lastEvent' = "fetch_ok"
          /\ hist' = Requested
          /\ batchWritten' = {}
          /\ pass' = Asked(pass)
          /\ UNCHANGED <<status, batches>>
       \/ /\ faults < MaxFaults
          /\ faults' = faults + 1
          /\ BatchFailed("fetch_no", TRUE, Requested)
          /\ UNCHANGED messages
    /\ UNCHANGED <<args, storage, mailboxes, ids, fetch, run, startStorage, prev,
                   selected, unit>>

(* ---------------- writing one message, lines 103-119 ---------------- *)
(* sanitize_string: an exception inside it, a KeyboardInterrupt included, is caught
   by its bare except and None is returned *)
Sanitized(header, interrupted) == IF interrupted THEN None ELSE sanitize_string(header)

WriteZip(st, path) == [st EXCEPT !.zipExists = TRUE, !.zip = @ (+) SetToBag({path})]
WriteFile(st, mailbox, file_name) ==
    [st EXCEPT !.files = @ \cup {[dir |-> mailbox, name |-> file_name]}]
CanOpen(st, a, mailbox) == a.zip \/ mailbox \in st.dirs
Written(st, a, mailbox, file_name) ==
    IF a.zip THEN WriteZip(st, EntryPath(mailbox, file_name))
    ELSE WriteFile(st, mailbox, file_name)

(* the message of msg_id is handled; the batch ends with its last id *)
Advance(really) ==
    LET n == ParseInt(Head(msg_ids))
        last == Len(msg_ids) = 1
        done == IF really THEN batchWritten \cup {n} ELSE batchWritten
    IN /\ msg_ids' = Tail(msg_ids)
       /\ messages' = Tail(messages)
       /\ batches' = IF last THEN Tail(batches) ELSE batches
       /\ pc' = IF last THEN AfterBatch(batches') ELSE "write"
       /\ batchWritten' = done
       /\ pass' = [pass EXCEPT !.written = IF really THEN @ \cup {n} ELSE @]
       /\ hist' = [hist EXCEPT !.wrote = IF really THEN @ + 1 ELSE @]
       /\ UNCHANGED status

HandleMessage(interrupted) ==
    LET mailbox == Head(mailboxes)
        subject == OrElse(Sanitized(Subject, interrupted), NoSubject)
        from_addr == OrElse(Sanitized(FromAddr, FALSE), NoSender)
        file_name == FileName(Head(msg_ids), from_addr, subject)
    IN \/ /\ args.dry_run
          /\ lastEvent' = IF interrupted THEN "interrupt_swallowed" ELSE "dry_run"
          /\ Advance(FALSE)
          /\ UNCHANGED storage
       \/ /\ ~args.dry_run
          /\ CanOpen(storage, args, mailbox)
          /\ storage' = Written(storage, args, mailbox, file_name)
          /\ lastEvent' = IF interrupted THEN "interrupt_swallowed" ELSE "written"
          /\ Advance(TRUE)
       \/ /\ ~args.dry_run
          /\ ~CanOpen(storage, args, mailbox)
          /\ BatchFailed("write_fail", FALSE, hist)
          /\ UNCHANGED <<storage, messages>>

WriteMessage ==
    /\ pc = "write"
    /\ \/ /\ messages # <<>>
          /\ Head(messages) = "msg"
          /\ HandleMessage(FALSE)
          /\ UNCHANGED faults
       \/ /\ (IF messages = <<>> THEN TRUE ELSE Head(messages) # "msg")
          /\ BatchFailed("decode_fail", FALSE, hist)
          /\ UNCHANGED <<storage, faults, messages>>
       \/ /\ messages # <<>>
          /\ Head(messages) = "msg"
          /\ ~args.dry_run
          /\ faults < MaxFaults
          /\ faults' = faults + 1
          /\ BatchFailed("write_fail", FALSE, hist)
          /\ UNCHANGED <<storage, messages>>
    /\ UNCHANGED <<args, mailboxes, ids, fetch, run, startStorage, prev, selected, unit>>

(* a KeyboardInterrupt delivered while a batch is in progress: in the body of the
   try block of main (lines 98-121), inside check_response (lines 24-28) or inside
   sanitize_string (lines 33-37) *)
Interrupt ==
    /\ pc \in {"fetch", "write"}
    /\ faults < MaxFaults
    /\ faults' = faults + 1
    /\ \/ /\ Exit130
          /\ UNCHANGED <<storage, progVars, batchWritten, pass, hist>>
       \/ /\ pc = "fetch"
          /\ BatchFailed("interrupt_swallowed", FALSE, Requested)
          /\ UNCHANGED <<storage, messages>>
       \/ /\ pc = "write"
          /\ messages # <<>>
          /\ Head(messages) = "msg"
          /\ HandleMessage(TRUE)
    /\ UNCHANGED <<args, mailboxes, ids, fetch, run, startStorage, prev, selected, unit>>

(* line 131: close the mailbox; then the next mailbox, or the end of main *)
Close ==
    /\ pc = "close"
    /\ \/ /\ mailboxes' = Tail(mailboxes)
          /\ pc' = IF mailboxes' = <<>> THEN "done" ELSE "select"
          /\ lastEvent' = "close_ok"
          /\ selected' = <<>>
          /\ UNCHANGED <<status, faults>>
       \/ /\ faults < MaxFaults
          /\ faults' = faults + 1
          /\ Abort("close_no")
          /\ UNCHANGED <<mailboxes, selected>>
    /\ UNCHANGED <<args, storage, ids, fetch, batches, msg_ids, messages, run,
                   startStorage, batchWritten, pass, hist, prev, unit>>

Next == \/ StartRun
        \/ Connect
        \/ Listing
        \/ SelectMailbox
        \/ FetchBatch
        \/ WriteMessage
        \/ Interrupt
        \/ Close

Spec == Init /\ [][Next]_vars

(* the interpreter keeps executing main() and every request is answered *)
RunStep == Connect \/ Listing \/ SelectMailbox \/ FetchBatch \/ WriteMessage \/ Close
FairSpec == Spec /\ WF_vars(RunStep)

(* ---------------- the helpers of main() applied on their own ---------------- *)
(* plans: the ascending lists of sequence numbers that line 86 can build *)
Ascending(numbers) == SelectSeq([i \in 1..MaxPlan |-> i], LAMBDA i : i \in numbers)
Plans == {Ascending(numbers) : numbers \in SUBSET (1..MaxPlan)}

(* header values: short strings over a few characters of every class, each also
   behind a charset token and repeated past the cut; and the missing header *)
HeaderChars == {"a", "Z", "7", "@", " ", "/", "\t", EAcute, "-"}
RECURSIVE Seqs(_)
Seqs(n) == IF n = 0 THEN {<<>>}
           ELSE Seqs(n - 1) \cup {x \o <<c>> : x \in Seqs(n - 1), c \in HeaderChars}
RECURSIVE Repeat(_, _)
Repeat(x, k) == IF k = 0 THEN <<>> ELSE x \o Repeat(x, k - 1)
CharsetTokens == {<<>>,
                  <<"u", "t", "f", "-", "8", "b">>,
                  <<"I", "s", "o", "-", "8", "8", "5", "9", "-", "1", "q">>,
                  <<"=", "?", "U", "T", "F", "-", "8", "?", "B", "?">>}
Headers == {None} \cup {t \o Repeat(x, k) : t \in CharsetTokens, x \in Seqs(MaxHeaderLen),
                                             k \in {1, LongRepeat}}

UnitInit ==
    /\ InitMain
    /\ ~args.zip
    /\ args.batch_size = 1
    /\ \/ \E plan \in Plans, size \in 1..MaxSize :
             unit = [NoUnit EXCEPT !.fn = "chunks", !.input = plan, !.size = size]
       \/ \E header \in Headers, fn \in {"subject", "from"} :
             unit = [NoUnit EXCEPT !.fn = fn, !.input = header]

(* lines 91-93 *)
PlanBatches ==
    /\ unit.fn = "chunks"
    /\ ~unit.done
    /\ unit' = [unit EXCEPT !.out = Batches(unit.input, unit.size), !.done = TRUE]
    /\ UNCHANGED mainVars

(* lines 105 and 107 *)
NameBySubject ==
    /\ unit.fn = "subject"
    /\ ~unit.done
    /\ unit' = [unit EXCEPT !.out = sanitize_string(unit.input),
                            !.name = FileName(<<"1">>, OrElse(sanitize_string(FromAddr), NoSender),
                                              OrElse(sanitize_string(unit.input), NoSubject)),
                            !.done = TRUE]
    /\ UNCHANGED mainVars

(* lines 106 and 107 *)
NameBySender ==
    /\ unit.fn = "from"
    /\ ~unit.done
    /\ unit' = [unit EXCEPT !.out = sanitize_string(unit.input),
                            !.name = FileName(<<"1">>, OrElse(sanitize_string(unit.input), NoSender),
                                              OrElse(sanitize_string(Subject), NoSubject)),
                            !.done = TRUE]
    /\ UNCHANGED mainVars

UnitNext == \/ PlanBatches
            \/ NameBySubject
            \/ NameBySender

UnitSpec == UnitInit /\ [][UnitNext]_vars

TypeOK == pc \in {"idle", "connect", "list", "select", "fetch", "write", "close",
                  "done", "aborted", "exit130"}

(* ---------------- what the claims speak about ---------------- *)
HasPrefix(x, p) == Len(x) >= Len(p) /\ SubSeq(x, 1, Len(p)) = p
Range(f) == {f[k] : k \in DOMAIN f}

(* names of the records persisted for a mailbox in the chosen back end *)
RecordNames(st, zip, mailbox) ==
    IF zip
    THEN {SubSeq(x, Len(mailbox) + 2, Len(x)) :
             x \in {y \in BagToSet(st.zip) : HasPrefix(y, mailbox \o <<"/">>)}}
    ELSE {f.name : f \in {g \in st.files : g.dir = mailbox}}
Records(st, zip, mailbox) ==
    {ParseInt(SplitFirst(x, <<"_">>)) : x \in {y \in RecordNames(st, zip, mailbox) : DigitsUnderscore(y)}}
RecordCount(st, zip, mailbox) ==
    IF zip
    THEN BagCardinality([x \in {y \in BagToSet(st.zip) : HasPrefix(y, mailbox \o <<"/">>)} |-> st.zip[x]])
    ELSE Cardinality({g \in st.files : g.dir = mailbox})

Running == run > 0
BatchOver == lastEvent \in {"written", "dry_run", "interrupt_swallowed"} /\ msg_ids = <<>>
                /\ pc \in {"fetch", "close"}
PassOver == pass.mailbox # <<>> /\ pc \in {"close", "select", "done", "aborted"}
NoBatchFailed == pass.fetchNo = {} /\ ~pass.otherFail

(* C1: a batch is all-or-nothing: when its fetch fails, when its response holds
   fewer or more payloads than sequence numbers were requested, or when a payload
   does not parse, the batch fails and none of its messages has been written. *)
C1_BatchAllOrNothing ==
    /\ lastEvent \in {"fetch_no", "decode_fail"} => batchWritten = {}
    /\ (BatchOver /\ messages # <<>>) => batchWritten = {}

(* C2: a fetch answered with a status that is not OK fails only its own batch:
   the run goes on, and when the pass over the mailbox is over every sequence
   number of the plan outside the failed batches has been written. *)
C2_FetchFailureIsolated ==
    /\ lastEvent = "fetch_no" => (pc \in {"fetch", "close"} /\ status = 0)
    /\ (PassOver /\ ~args.dry_run /\ ~pass.otherFail)
          => pass.written = Range(fetch) \ pass.fetchNo

C2_Witness ==
    /\ pc = "select"
    /\ lastEvent = "close_ok"
    /\ ~args.dry_run
    /\ pass.fetchNo = {2}
    /\ pass.written = {1}
    /\ Records(storage, args.zip, pass.mailbox) = {1}

(* C3: a run with dry-run set leaves the storage as it was when the run started. *)
C3_DryRunLeavesStorage ==
    (Running /\ args.dry_run) => storage = startStorage

PersistedAtStart ==
    {p \in Range(ServerListing) \X (1..MaxN) : p[2] \in Records(startStorage, args.zip, p[1])}
SecondRun == prev.valid /\ prev.same /\ ~args.all

(* C4 as stated: the second of two runs with the same options and without `all`,
   the first of which reached the end, writes nothing and fetches no sequence
   number that was persisted before. *)
C4_SecondRunWritesNothing ==
    (SecondRun /\ prev.done) => (hist.wrote = 0 /\ hist.fetched \cap PersistedAtStart = {})

(* C4, amended: the second of two runs with the same options and without `all`
   issues no fetch for a sequence number persisted before it started; and it
   writes nothing when the first run reached the end with no failed batch. *)
C4_Idempotent ==
    SecondRun => /\ hist.fetched \cap PersistedAtStart = {}
                 /\ prev.clean => hist.wrote = 0

C4_Witness ==
    /\ SecondRun
    /\ prev.clean
    /\ ~args.dry_run
    /\ pc = "done"
    /\ lastEvent = "close_ok"
    /\ PersistedAtStart # {}
    /\ hist.wrote = 0

(* C5: a pass without `all` and without dry-run that found an empty inventory and
   had no failed batch leaves exactly one record for each of 1..N. *)
C5_Complete ==
    (PassOver /\ pass.emptyInv /\ ~args.dry_run /\ NoBatchFailed)
       => /\ Records(storage, args.zip, pass.mailbox) = 1..MsgCount(pass.mailbox)
          /\ RecordCount(storage, args.zip, pass.mailbox) = MsgCount(pass.mailbox)

C5_Witness ==
    /\ pc = "done"
    /\ pass.mailbox = MbBA
    /\ pass.emptyInv
    /\ ~args.dry_run
    /\ NoBatchFailed
    /\ RecordCount(storage, args.zip, MbBA) = MaxN

WorkingSet(a) ==
    IF UsesInclude(a) THEN NotExcluded(Included(a), Excluded(a))
    ELSE NotExcluded(ServerListing, Excluded(a))
Occurrences(names, x) == Cardinality({k \in DOMAIN names : names[k] = x})
SecondAllRun == prev.valid /\ prev.all /\ args.all /\ args.zip /\ ~args.dry_run

(* C6: the second of two consecutive runs with `all` in archive mode, passing once
   over a mailbox with no failed batch, leaves exactly N entries for it. *)
C6_NoDuplication ==
    (SecondAllRun /\ PassOver /\ NoBatchFailed
        /\ Occurrences(WorkingSet(args), pass.mailbox) = 1)
       => RecordCount(storage, TRUE, pass.mailbox) = MsgCount(pass.mailbox)

C6_Witness ==
    /\ SecondAllRun
    /\ prev.clean
    /\ pc = "done"
    /\ NoBatchFailed
    /\ Occurrences(WorkingSet(args), pass.mailbox) = 1
    /\ RecordCount(startStorage, TRUE, pass.mailbox) = MsgCount(pass.mailbox)
    /\ RecordCount(storage, TRUE, pass.mailbox) = MsgCount(pass.mailbox)

(* C7: an interrupt raised while a batch is fetched or written ends the run at
   once with exit status 130. *)
C7_InterruptExits ==
    lastEvent \in {"interrupt", "interrupt_swallowed"} => (pc = "exit130" /\ status = 130)

(* C8: a message that cannot be written aborts the run. *)
C8_WriteFailureAborts ==
    lastEvent = "write_fail" => pc = "aborted"

(* C9: a status that is not OK aborts the run when it answers list, select or
   close, and nothing more is requested in that run; it fails only the batch
   when it answers a fetch. *)
C9_State ==
    /\ lastEvent \in {"list_no", "select_no", "close_no"} => (pc = "aborted" /\ status = 1)
    /\ lastEvent = "fetch_no" => (pc \in {"fetch", "close"} /\ status = 0)
C9_StatusNotOk ==
    [](C9_State) /\ [][pc = "aborted" => (pc' = "connect" /\ run' = run + 1)]_vars

C9_Witness ==
    /\ lastEvent = "close_no"
    /\ pc = "aborted"
    /\ Len(mailboxes) > 1
    /\ hist.fetched # {}

(* C10: the fetch plan is 1..N with `all`, and otherwise the members of 1..N that
   are not in the inventory, in ascending order. *)
C10_FetchPlan ==
    pc \in {"fetch", "write", "close"} =>
       LET N == MsgCount(Head(mailboxes)) IN
       /\ \A j, k \in DOMAIN fetch : j < k => fetch[j] < fetch[k]
       /\ Range(fetch) = IF args.all THEN 1..N ELSE (1..N) \ ids

C10_Witness ==
    /\ pc = "fetch"
    /\ ~args.all
    /\ \E i \in ids : i > MsgCount(Head(mailboxes))
    /\ fetch = <<1>>

RECURSIVE Concat(_)
Concat(bs) == IF bs = <<>> THEN <<>>
              ELSE [k \in 1..Len(Head(bs)) |-> ParseInt(Head(bs)[k])] \o Concat(Tail(bs))

(* C11: for a plan of length P and a batch size B >= 1 the planner yields
   ceil(P/B) batches, each of B numbers except the last, which has between 1 and
   B; the batches in order make up the plan; an empty plan yields no batch. *)
C11_Partition ==
    (unit.fn = "chunks" /\ unit.done) =>
       LET P == Len(unit.input)
           B == unit.size
           out == unit.out
       IN /\ Len(out) = (P + B - 1) \div B
          /\ \A k \in 1..(Len(out) - 1) : Len(out[k]) = B
          /\ Len(out) > 0 => Len(out[Len(out)]) \in 1..B
          /\ Concat(out) = unit.input
          /\ P = 0 => out = <<>>

C11_Witness ==
    /\ unit.fn = "chunks"
    /\ unit.done
    /\ unit.size = 2
    /\ unit.input = <<1, 3, 5>>
    /\ unit.out = <<<<Str(1), Str(3)>>, <<Str(5)>>>>

(* C12 as stated: with a non-empty include-list and list-only off the mailboxes
   processed are the include-list as given, no listing is requested and nothing
   is removed from it; otherwise they are the server's listing without the
   members of the exclude-list. *)
C12_WorkingSet ==
    /\ lastEvent \in {"included", "list_ok"} =>
          mailboxes = IF Len(Included(args)) > 0 THEN Included(args)
                      ELSE NotExcluded(ServerListing, Excluded(args))
    /\ lastEvent \in {"list_ok", "list_no"} => Len(Included(args)) = 0

(* C13: the sanitizer returns the absent result or a string of at most 35
   characters, each alphanumeric or one of @ - _ . and space; a missing header
   yields the absent result, and the entry name then carries the fallback token
   in its place. *)
C13_Sanitizer ==
    (unit.fn \in {"subject", "from"} /\ unit.done) =>
       /\ unit.out # None =>
             /\ Len(unit.out) <= 35
             /\ \A k \in 1..Len(unit.out) :
                   unit.out[k] \in {"@", "-", "_", ".", " ", EAcute} \cup Range(LowerChars)
                                      \cup Range(UpperChars) \cup Range(DigitChars)
       /\ unit.input = None =>
             /\ unit.out = None
             /\ unit.fn = "subject" =>
                   unit.name = <<"1", "_">> \o FromAddr \o <<"_", "_">> \o NoSubject
                                  \o <<".", "e", "m", "l">>
             /\ unit.fn = "from" =>
                   unit.name = <<"1", "_">> \o NoSender \o <<"_", "_">> \o Subject
                                  \o <<".", "e", "m", "l">>

C13_Witness ==
    /\ unit.fn = "subject"
    /\ unit.done
    /\ Len(unit.input) > 35
    /\ Len(unit.out) = 35
    /\ \E k \in 1..Len(unit.input) : ~IsKept(unit.input[k])

(* C14 as stated: in archive mode the inventory of mailbox M holds exactly the
   numbers of the entries whose path starts with M/ and whose remainder starts
   with digits and an underscore; entries of other mailboxes contribute none. *)
C14_InventoryPerMailbox ==
    (lastEvent = "select_ok" /\ args.zip /\ ~args.all)
       => ids = Records(storage, TRUE, Head(mailboxes))

(* C15 as stated: in directory mode with dry-run off the directory of the mailbox
   exists before any of its messages is written, with `all` too. *)
C15_DirectoryEnsured ==
    (pc = "write" /\ ~args.zip /\ ~args.dry_run) => Head(mailboxes) \in storage.dirs

IsSuffix(x, y) == Len(x) <= Len(y) /\ SubSeq(y, Len(y) - Len(x) + 1, Len(y)) = x
C16_State ==
    /\ pc \in {"fetch", "write", "close"} => (mailboxes # <<>> /\ selected = Head(mailboxes))
    /\ pc \in {"idle", "connect", "list", "select", "done"} => selected = <<>>
    /\ pc \in {"select", "fetch", "write", "close"} => IsSuffix(mailboxes, WorkingSet(args))
    /\ lastEvent \in {"list_ok", "list_no", "list_only"} => ~UsesInclude(args)
C16_Step ==
    /\ (selected' # selected /\ selected' # <<>>) => (selected = <<>> /\ pc = "select")
    /\ (selected' # selected /\ selected' = <<>>) => (pc = "close" \/ pc' = "connect")
    /\ pass'.fetches > pass.fetches => (pc = "fetch" /\ selected = Head(mailboxes))
    /\ pc' = "list" => pc = "connect"
    /\ pc' = "select" => (pc = "list" \/ (pc = "close" /\ mailboxes' = Tail(mailboxes)))

(* C16: the requests of a run are login, at most one list, then for each mailbox
   of the working set in order select, fetches, close; a fetch is issued only
   while a mailbox is selected, no mailbox is selected while another is, and a
   selected mailbox is closed before the next select and before the run is
   done, whether or not batches failed. *)
C16_RequestOrder == [](C16_State) /\ [][C16_Step]_vars

C16_Witness ==
    /\ pc = "select"
    /\ lastEvent = "close_ok"
    /\ selected = <<>>
    /\ pass.fetchNo # {}
    /\ mailboxes = <<MbBA>>

Planned == Len(Batches(fetch, args.batch_size))
C17_State ==
    /\ ~pass.again
    /\ pc = "fetch" => pass.fetches + Len(batches) = Planned
    /\ pc = "write" => pass.fetches + Len(batches) - 1 = Planned
    /\ pc = "close" => (batches = <<>> /\ pass.fetches = Planned)
    /\ (lastEvent = "select_ok" /\ fetch = <<>>) => (pc = "close" /\ pass.fetches = 0)
PcRank == IF pc = "connect" THEN 5 ELSE IF pc = "list" THEN 4 ELSE IF pc = "select" THEN 3
          ELSE IF pc \in {"fetch", "write"} THEN 2 ELSE IF pc = "close" THEN 1 ELSE 0
Measure == <<PcRank, Len(mailboxes), Len(batches), IF pc = "fetch" THEN 1 ELSE 0, Len(msg_ids)>>
Decreases(a, b) ==
    \/ a[1] > 2 /\ b[1] < a[1]
    \/ a[1] <= 2 /\ b[1] <= 3 /\
          \/ b[2] < a[2]
          \/ b[2] = a[2] /\ b[1] <= 2 /\
                \/ b[3] < a[3]
                \/ b[3] = a[3] /\ b[1] = 1 /\ a[1] = 2
                \/ b[3] = a[3] /\ b[1] = a[1] /\ b[4] < a[4]
                \/ b[3] = a[3] /\ b[1] = a[1] /\ b[4] = a[4] /\ b[5] < a[5]
C17_Step == ~Finished => (Finished' \/ Decreases(Measure, Measure'))

(* C17: every run ends in Done or Aborted; in a pass one fetch is requested for
   each planned batch and none twice, no sequence number is requested in more
   than one fetch, and an empty plan requests no fetch and the pass goes on to
   close the mailbox. *)
C17_Termination ==
    /\ [](C17_State)
    /\ [][C17_Step]_vars
    /\ [](~Finished => <>Finished)

C17_Witness ==
    /\ pc = "close"
    /\ pass.fetches = 2
    /\ pass.fetchNo # {}
    /\ pass.written # {}

EntryCount(st, mailbox, n) ==
    BagCardinality([x \in {y \in BagToSet(st.zip) :
                              /\ HasPrefix(y, mailbox \o <<"/">>)
                              /\ DigitsUnderscore(SubSeq(y, Len(mailbox) + 2, Len(y)))
                              /\ ParseInt(SplitFirst(SubSeq(y, Len(mailbox) + 2, Len(y)), <<"_">>)) = n}
                      |-> st.zip[x]])

(* C18 as stated: in archive mode the archive never holds two entries with the
   same mailbox prefix and the same leading sequence number. *)
C18_UniqueEntries ==
    args.zip => \A mailbox \in Range(ServerListing), n \in 1..MaxN :
                   EntryCount(storage, mailbox, n) <= 1

(* C19 as stated: a run that fails to connect, and a run in list-only mode, leave
   the storage as it was before the run: no persisted record is deleted or
   modified. *)
C19_NoEffect ==
    lastEvent \in {"connect_fail", "list_only"}
       => (storage.zip = startStorage.zip /\ storage.files = startStorage.files)

(* C20 as stated: in runs without `all` and without dry-run, the plan of the run
   after a run with failed batches is the set of the numbers of 1..N that have
   no persisted record. *)
C20_Recovery ==
    (prev.valid /\ prev.same /\ prev.failed /\ ~args.all /\ ~args.dry_run
        /\ lastEvent = "select_ok")
       => Range(fetch) = (1..MsgCount(Head(mailboxes))) \ Records(storage, args.zip, Head(mailboxes))

====
